---- MODULE Spec2Model ----
(***************************************************************************)
(* Connection registry (BaileysConnectionsHandler), connection session     *)
(* (BaileysConnection) and webhook dispatcher (sendToWebhook) of the       *)
(* baileys-api service.                                                    *)
(*                                                                         *)
(* Concurrency model: one JavaScript event loop.  A step of the model is   *)
(* one run-to-completion slice: the code between two suspensions on real   *)
(* I/O or timers (credential store, version fetch, transport request,      *)
(* HTTP call, sleep).  An await on a value that is already settled (await  *)
(* undefined, await of an async function that did not suspend) continues   *)
(* in the same slice.  Suspended calls are kept in the bag `tasks`.        *)
(*                                                                         *)
(* The Transport (socket) and the Credential Store are external: what a    *)
(* socket emits and whether a transport request succeeds are inputs.  A    *)
(* socket can emit as long as it has not emitted "close"; the code never   *)
(* detaches the listeners of a handle it drops, so a dropped handle keeps  *)
(* driving its session.  Credential Store operations are assumed not to    *)
(* fail.                                                                   *)
(***************************************************************************)
EXTENDS Integers, Sequences, FiniteSets, Bags, TLC

(***************************************************************************)
(* Bounds.  Four exploration profiles share the same actions: the          *)
(* registry profile (several identities, every registry operation), the    *)
(* race profile (one identity, overlapping connect calls), the session     *)
(* profile (one identity, reconnect counter up to and beyond the ceiling)  *)
(* and the webhook profile (one session, full delivery loop).              *)
(***************************************************************************)
RegIds == 2
RegSessions == 2
RegSockets == 1
RegTasks == 1
RegReconnects == 1
RegOptions == 2
RegMessages == 2

RaceSessions == 2
RaceSockets == 2
RaceTasks == 2
RaceReconnects == 1

SesSessions == 1
SesSockets == 2
SesTasks == 1
SesReconnects == 12
SesMessages == 12

AdmIds == 2
AdmSessions == 2
AdmSockets == 2
AdmTasks == 1
AdmReconnects == 1

SigSessions == 1
SigSockets == 2
SigTasks == 1
SigReconnects == 11

FltSessions == 1
FltSockets == 2
FltTasks == 1
FltReconnects == 11

PrsSessions == 1
PrsSockets == 1
PrsTasks == 2
PrsReconnects == 1

CeilSessions == 1
CeilSockets == 1
CeilTasks == 2
CeilReconnects == 12

ShutIds == 2
ShutSessions == 2
ShutSockets == 2
ShutTasks == 2
ShutReconnects == 1

WhReconnects == 1
WhMaxRetries == 3
WhDeliveries == 2
MaxCloseCalls == 2

\* handleReconnecting: `if (this.reconnectCount > 10)`
ReconnectCeiling == 10
\* sendToWebhook: `Math.floor(Math.random() * 1000)`
JitterRange == 1000
\* sendPresenceUpdate: setTimeout(..., 60000)
PresenceResetMs == 60000

VARIABLES
  profile,      \* the bounds of this exploration (constant along a behaviour)
  connections,  \* BaileysConnectionsHandler.connections: identity -> session (0: no entry)
  sessions,     \* the BaileysConnection instances ever constructed, in order
  sockets,      \* the Transport handles ever created by makeWASocket, in order
  creds,        \* Credential Store: identity -> auth material is stored
  tasks,        \* bag of suspended async calls
  admin,        \* the reconnectFromAuthStore and logoutAll calls in progress
                \* (made: the sessions reconnectFromAuthStore constructed)
  delivery,     \* the sendToWebhook call being followed (webhook profile)
  last          \* what the last step returned to its caller, asked of the
                \* Transport and dispatched to the webhook

vars == <<profile, connections, sessions, sockets, creds, tasks, admin, delivery, last>>

RegistryProfile ==
  [name |-> "registry", ids |-> RegIds, sessions |-> RegSessions,
   sockets |-> RegSockets, tasks |-> RegTasks, rc |-> RegReconnects,
   options |-> RegOptions, deliveries |-> 0, messages |-> RegMessages, startup |-> FALSE]

RaceProfile ==
  [name |-> "race", ids |-> 1, sessions |-> RaceSessions,
   sockets |-> RaceSockets, tasks |-> RaceTasks, rc |-> RaceReconnects,
   options |-> 1, deliveries |-> 0, messages |-> 1, startup |-> FALSE]

SessionProfile ==
  [name |-> "session", ids |-> 1, sessions |-> SesSessions,
   sockets |-> SesSockets, tasks |-> SesTasks, rc |-> SesReconnects,
   options |-> 1, deliveries |-> 0, messages |-> SesMessages, startup |-> FALSE]

WebhookProfile ==
  [name |-> "webhook", ids |-> 1, sessions |-> 1,
   sockets |-> 1, tasks |-> 1, rc |-> WhReconnects,
   options |-> 1, deliveries |-> WhDeliveries, messages |-> 1, startup |-> FALSE]

RestoreProfile ==
  [name |-> "restore", ids |-> AdmIds, sessions |-> AdmSessions,
   sockets |-> AdmSockets, tasks |-> AdmTasks, rc |-> AdmReconnects,
   options |-> 1, deliveries |-> 0, messages |-> 1, startup |-> TRUE]

ShutdownProfile ==
  [name |-> "shutdown", ids |-> ShutIds, sessions |-> ShutSessions,
   sockets |-> ShutSockets, tasks |-> ShutTasks, rc |-> ShutReconnects,
   options |-> 1, deliveries |-> 0, messages |-> 1, startup |-> FALSE]

SignalProfile ==
  [name |-> "signal", ids |-> 1, sessions |-> SigSessions,
   sockets |-> SigSockets, tasks |-> SigTasks, rc |-> SigReconnects,
   options |-> 1, deliveries |-> 0, messages |-> 1, startup |-> TRUE]

FaultProfile ==
  [name |-> "fault", ids |-> 1, sessions |-> FltSessions,
   sockets |-> FltSockets, tasks |-> FltTasks, rc |-> FltReconnects,
   options |-> 1, deliveries |-> 0, messages |-> 1, startup |-> FALSE]

PresenceProfile ==
  [name |-> "presence", ids |-> 1, sessions |-> PrsSessions,
   sockets |-> PrsSockets, tasks |-> PrsTasks, rc |-> PrsReconnects,
   options |-> 1, deliveries |-> 0, messages |-> 1, startup |-> FALSE]

CeilingProfile ==
  [name |-> "ceiling", ids |-> 1, sessions |-> CeilSessions,
   sockets |-> CeilSockets, tasks |-> CeilTasks, rc |-> CeilReconnects,
   options |-> 1, deliveries |-> 0, messages |-> 1, startup |-> FALSE]

Ids == 1..profile.ids
Options == 1..profile.options
SessionSet == 1..Len(sessions)
SocketSet == 1..Len(sockets)
TaskSet == BagToSet(tasks)

(***************************************************************************)
(* The synchronous code is written as state transformers: an operator      *)
(* takes the program state `st` at the point of the call and gives the     *)
(* state at its first suspension (or at its return).  `st` also collects   *)
(* what the slice returns (result), asks of the Transport (calls) and      *)
(* dispatches to the webhook (hooks).                                      *)
(***************************************************************************)
Cur ==
  [sessions |-> sessions, sockets |-> sockets, connections |-> connections,
   creds |-> creds, tasks |-> tasks, admin |-> admin,
   result |-> "-", calls |-> <<>>, hooks |-> <<>>]

Task(kind, s, cont, arg) == [kind |-> kind, sess |-> s, cont |-> cont, arg |-> arg]

\* an `await` on real I/O: the rest of the call is parked
suspend(st, t) == [st EXCEPT !.tasks = @ (+) SetToBag({t})]

PhoneOf(st, s) == st.sessions[s].phoneNumber

\* Credential Store: `saveCreds` persists the identity's auth material and
\* `state.keys.clear` removes it
saveCreds(st, i) == [st EXCEPT !.creds[i] = TRUE]

clearAuthState(st, i) == [st EXCEPT !.creds[i] = FALSE]

\* new BaileysConnection(phoneNumber, options).  Three fields are records
\* of the history: closeCalls counts the invocations of the on-close
\* callback, closedBy names the first path that closed the session, and
\* revertSuperseded says that an "unavailable" update was sent for since the
\* pending presence-reset timer was set.  pendingTimers counts the setTimeout
\* callbacks of the session that are scheduled and neither fired nor cleared.
BaileysConnection(i, o, isRec) ==
  [phoneNumber |-> i, options |-> o, socket |-> 0, clearAuthState |-> FALSE,
   isReconnect |-> isRec, reconnectCount |-> 0,
   clearOnlinePresenceTimeout |-> FALSE, revertSuperseded |-> FALSE,
   pendingTimers |-> 0,
   closeCalls |-> 0, closedBy |-> "none"]

\* sendToWebhook is never awaited by its callers and never throws: the
\* slice only dispatches it.  The delivery loop is DeliveryResponse below.
sendToWebhook(st, ev) == [st EXCEPT !.hooks = Append(@, ev)]

\* the onConnectionClose callback the registry installs
onConnectionClose(st, s) ==
  [st EXCEPT !.connections[PhoneOf(st, s)] = 0,
             !.sessions[s].closeCalls = IF @ < MaxCloseCalls THEN @ + 1 ELSE @]

RECURSIVE Ascending(_)
Ascending(S) ==
  IF S = {} THEN <<>>
  ELSE LET m == CHOOSE x \in S : \A y \in S : x <= y
       IN <<m>> \o Ascending(S \ {m})

\* Credential Store: the identities with saved auth material
getRedisSavedAuthStateIds(st) ==
  Ascending({i \in DOMAIN st.creds : st.creds[i]})

\* a turn of reconnectFromAuthStore that constructs a session as
\* Registry.connect does, without isReconnect
restoreNext_PlainSession(st) ==
  IF st.admin.todo = <<>>
  THEN [st EXCEPT !.admin.restore = "done"]
  ELSE LET i == Head(st.admin.todo)
           s == Len(st.sessions) + 1
           st1 == [st EXCEPT !.sessions = Append(@, BaileysConnection(i, 1, FALSE)),
                             !.connections[i] = s,
                             !.admin.restore = "loop",
                             !.admin.made = @ \cup {s},
                             !.admin.todo = Tail(@)]
       IN suspend(st1, Task("connect.auth", s, "restore", "-"))

\* reconnectFromAuthStore, one turn of the loop: the session is registered
\* before its connect() is awaited (a new session has no socket, so connect()
\* goes on to `await useRedisAuthState`)
restoreNext(st) ==
  IF st.admin.todo = <<>>
  THEN [st EXCEPT !.admin.restore = "done"]
  ELSE LET i == Head(st.admin.todo)
           s == Len(st.sessions) + 1
           st1 == [st EXCEPT !.sessions = Append(@, BaileysConnection(i, 1, TRUE)),
                             !.connections[i] = s,
                             !.admin.restore = "loop",
                             !.admin.made = @ \cup {s},
                             !.admin.todo = Tail(@)]
       IN suspend(st1, Task("connect.auth", s, "restore", "-"))

\* what the caller of BaileysConnection.connect() does when it returns
afterConnect(st, s, cont) ==
  IF cont = "registry"
  THEN [st EXCEPT !.connections[PhoneOf(st, s)] = s, !.result = "ok"]
  ELSE IF cont = "restore"
  THEN restoreNext(st)
  ELSE st

\* BaileysConnection.connect, up to `await useRedisAuthState`
connect(st, s, cont) ==
  IF st.sessions[s].socket # 0
  THEN afterConnect(st, s, cont)
  ELSE suspend(st, Task("connect.auth", s, cont, "-"))

\* BaileysConnection.connect, from makeWASocket on
makeWASocket(st, s, ok) ==
  IF ok
  THEN [st EXCEPT !.sockets = Append(@, [owner |-> s, live |-> TRUE, cuOn |-> TRUE]),
                  !.sessions[s].socket = Len(st.sockets) + 1]
  ELSE onConnectionClose(
         [st EXCEPT !.sessions[s].closedBy = IF @ = "none" THEN "create" ELSE @], s)

\* logoutAll: one of the awaited logout() calls has settled; when all have,
\* Promise.allSettled resolves and the registry is emptied
settleOne(st) ==
  LET st1 == [st EXCEPT !.admin.pending = @ - 1]
  IN IF st1.admin.pending = 0
     THEN [st1 EXCEPT !.connections = [i \in DOMAIN @ |-> 0],
                      !.admin.waiting = FALSE,
                      !.admin.targets = {},
                      !.result = "ok"]
     ELSE st1

\* resume without the `this.socket = null` that precedes the reconnect
resume_NoDrop(st, s, cont) ==
  CASE cont = "reconnect" -> connect(st, s, "none")
    [] cont = "forward" -> sendToWebhook(st, "close")
    [] cont = "logout.registry" ->
         [st EXCEPT !.connections[PhoneOf(st, s)] = 0, !.result = "ok"]
    [] cont = "all" -> settleOne(st)
    [] OTHER -> st

\* the code that follows an awaited close() / handleReconnecting() / logout()
resume(st, s, cont) ==
  CASE cont = "reconnect" ->
         connect([st EXCEPT !.sessions[s].socket = 0], s, "none")
    [] cont = "forward" -> sendToWebhook(st, "close")
    [] cont = "logout.registry" ->
         [st EXCEPT !.connections[PhoneOf(st, s)] = 0, !.result = "ok"]
    [] cont = "all" -> settleOne(st)
    [] OTHER -> st

\* BaileysConnection.close, after `await this.clearAuthState?.()`
closeEnd(st, s, cont, why) ==
  LET st1 == [st EXCEPT !.sessions[s].clearAuthState = FALSE,
                        !.sessions[s].socket = 0,
                        !.sessions[s].reconnectCount = 0,
                        !.sessions[s].closedBy = IF @ = "none" THEN why ELSE @]
  IN resume(onConnectionClose(st1, s), s, cont)

\* BaileysConnection.close
close(st, s, cont, why) ==
  IF st.sessions[s].clearAuthState
  THEN suspend(clearAuthState(st, PhoneOf(st, s)), Task("close", s, cont, why))
  ELSE closeEnd(st, s, cont, why)

\* handleReconnecting that notifies the webhook before it tests the ceiling
handleReconnecting_NotifyFirst(st, s, cont) ==
  LET st1 == sendToWebhook([st EXCEPT !.sessions[s].reconnectCount = @ + 1],
                           "reconnecting")
  IN IF st1.sessions[s].reconnectCount > ReconnectCeiling
     THEN close(st1, s, cont, "ceiling")
     ELSE resume(st1, s, cont)

\* BaileysConnection.handleReconnecting
handleReconnecting(st, s, cont) ==
  LET st1 == [st EXCEPT !.sessions[s].reconnectCount = @ + 1]
  IN IF st1.sessions[s].reconnectCount > ReconnectCeiling
     THEN close(st1, s, cont, "ceiling")
     ELSE resume(sendToWebhook(st1, "reconnecting"), s, cont)

\* BaileysConnection.logout
logout(st, s, cont) ==
  IF st.sessions[s].socket = 0
  THEN close(st, s, cont, "logout")
  ELSE suspend([st EXCEPT !.calls = Append(@, "logout")],
               Task("logout", s, cont, "-"))

\* BaileysConnection.handleWrongPhoneNumber
handleWrongPhoneNumber(st, s) ==
  LET st1 == sendToWebhook(st, "wrong_phone_number")
      h == st1.sessions[s].socket
      st2 == IF h # 0 THEN [st1 EXCEPT !.sockets[h].cuOn = FALSE] ELSE st1
  IN logout(st2, s, "logout.none")

ReconnectSignals == {"newLogin", "connectingEmptyQr"}
CloseUpdates == {"closeRecoverable", "closeLoggedOut", "closeQrEnded"}
ConnectionUpdates ==
  ReconnectSignals \cup CloseUpdates \cup {"connecting", "open", "qr", "online", "other"}

\* the `isReconnecting` test of handleConnectionUpdate
isReconnecting(st, s, ev) ==
  \/ ev \in ReconnectSignals
  \/ ev = "connecting" /\ st.sessions[s].isReconnect

\* the `shouldReconnect` test of handleConnectionUpdate
shouldReconnect(ev) == ev # "closeLoggedOut" /\ ev # "closeQrEnded"

\* forwardUpdate without the reset of reconnectCount on "open"
forwardUpdate_NoReset(st, s, ev) ==
  sendToWebhook(st, IF ev = "qr" THEN "connecting"
                    ELSE IF ev = "online" THEN "open" ELSE ev)

\* handleConnectionUpdate, from `if (qr)` to the end
forwardUpdate(st, s, ev) ==
  LET presented == IF ev = "qr" THEN "connecting"
                   ELSE IF ev = "online" THEN "open" ELSE ev
      st1 == IF presented = "open"
             THEN [st EXCEPT !.sessions[s].reconnectCount = 0] ELSE st
  IN sendToWebhook(st1, presented)

\* BaileysConnection.handleConnectionUpdate for update `ev`; `user` is what
\* this.socket.user.id names: the session's own number, another one, or nothing
handleConnectionUpdate(st, s, ev, user) ==
  IF isReconnecting(st, s, ev)
  THEN handleReconnecting([st EXCEPT !.sessions[s].isReconnect = FALSE], s, "none")
  ELSE IF ev \in CloseUpdates
  THEN IF shouldReconnect(ev)
       THEN handleReconnecting(st, s, "reconnect")
       ELSE close(st, s, "forward", "terminal")
  ELSE IF ev = "open" /\ st.sessions[s].socket # 0 /\ user = "other"
  THEN handleWrongPhoneNumber(st, s)
  ELSE IF ev = "qr"
  THEN suspend(st, Task("qr", s, "-", "-"))
  ELSE forwardUpdate(st, s, ev)

\* presenceThen without the setTimeout after an "available" update
presenceThen_NoTimer(st, s, type) ==
  [st EXCEPT !.sessions[s].clearOnlinePresenceTimeout =
               IF type \in {"unavailable", "available"} THEN FALSE ELSE @,
             !.sessions[s].pendingTimers =
               IF st.sessions[s].clearOnlinePresenceTimeout
                  /\ type \in {"unavailable", "available"}
               THEN @ - 1 ELSE @,
             !.sessions[s].revertSuperseded =
               IF type \in {"unavailable", "available"} THEN FALSE ELSE @]

\* presenceThen without the clearTimeout of the timer set before
presenceThen_NoClear(st, s, type) ==
  [st EXCEPT !.sessions[s].clearOnlinePresenceTimeout =
               IF type = "available" THEN TRUE ELSE @,
             !.sessions[s].pendingTimers =
               IF type = "available" THEN @ + 1 ELSE @,
             !.sessions[s].revertSuperseded =
               IF type \in {"unavailable", "available"} THEN FALSE ELSE @]

\* the .then callback of BaileysConnection.sendPresenceUpdate.  The timer
\* field is TRUE while a reset is pending; a timer that has fired behaves
\* like none (clearTimeout of it does nothing).
presenceThen(st, s, type) ==
  LET pending == st.sessions[s].clearOnlinePresenceTimeout
      cleared == IF pending /\ type \in {"unavailable", "available"}
                 THEN FALSE ELSE pending
      left == IF pending /\ type \in {"unavailable", "available"}
              THEN st.sessions[s].pendingTimers - 1
              ELSE st.sessions[s].pendingTimers
  IN [st EXCEPT !.sessions[s].clearOnlinePresenceTimeout =
                   IF type = "available" THEN TRUE ELSE cleared,
                 !.sessions[s].pendingTimers =
                   IF type = "available" THEN left + 1 ELSE left,
                 !.sessions[s].revertSuperseded =
                   IF type \in {"unavailable", "available"} THEN FALSE ELSE @]

\* BaileysConnection.sendPresenceUpdate, up to the Transport request;
\* `me` is this.socket.authState.creds.me
sendPresenceUpdate(st, s, type, me, cont) ==
  IF st.sessions[s].socket = 0
  THEN [st EXCEPT !.result = "NotConnectedError"]
  ELSE IF ~me
  THEN [st EXCEPT !.result = "ok"]
  ELSE suspend([st EXCEPT !.calls = Append(@, type),
                          !.sessions[s].revertSuperseded =
                            IF type = "unavailable"
                            THEN st.sessions[s].clearOnlinePresenceTimeout
                            ELSE @],
               Task("presence", s, cont, type))

\* BaileysConnection.updateOptions
updateOptions(st, s, o) == [st EXCEPT !.sessions[s].options = o]

\* BaileysConnectionsHandler.connect, from `new BaileysConnection` on
createAndConnect(st, i, o) ==
  LET st1 == [st EXCEPT !.sessions = Append(@, BaileysConnection(i, o, FALSE))]
  IN connect(st1, Len(st1.sessions), "registry")

\* connect that replaces the entry without looking at it
handlerConnect_AlwaysNew(st, i, o, me) == createAndConnect(st, i, o)

\* connect that rethrows every probe failure, NotConnectedError included
handlerConnect_RethrowAll(st, i, o, me) ==
  IF st.connections[i] = 0
  THEN createAndConnect(st, i, o)
  ELSE sendPresenceUpdate(updateOptions(st, st.connections[i], o),
                          st.connections[i], "available", me, "registry")

\* BaileysConnectionsHandler.connect
handlerConnect(st, i, o, me) ==
  LET s == st.connections[i]
      probed == sendPresenceUpdate(updateOptions(st, s, o), s, "available", me, "registry")
  IN IF s = 0
     THEN createAndConnect(st, i, o)
     ELSE IF probed.result = "NotConnectedError"
     THEN createAndConnect([probed EXCEPT !.result = "-", !.connections[i] = 0], i, o)
     ELSE probed

\* getConnection that falls back on another identity's session
getConnection_AnyEntry(st, i) ==
  IF st.connections[i] = 0 /\ \E j \in DOMAIN st.connections : st.connections[j] # 0
  THEN CHOOSE s \in 1..Len(st.sessions) : \E j \in DOMAIN st.connections : st.connections[j] = s
  ELSE st.connections[i]

\* BaileysConnectionsHandler.getConnection: 0 stands for the throw
getConnection(st, i) == st.connections[i]

\* BaileysConnectionsHandler.logout
handlerLogout(st, i) ==
  IF getConnection(st, i) = 0
  THEN [st EXCEPT !.result = "NotConnectedError"]
  ELSE logout(st, getConnection(st, i), "logout.registry")

\* logoutAll that calls logout() on the first registered session only
logoutEach_FirstOnly(st, ss) ==
  IF ss = <<>> THEN st
  ELSE logout([st EXCEPT !.admin.pending = 1], Head(ss), "all")

\* connections.map((c) => c.logout())
RECURSIVE logoutEach(_, _)
logoutEach(st, ss) ==
  IF ss = <<>> THEN st
  ELSE logoutEach(logout(st, Head(ss), "all"), Tail(ss))

\* BaileysConnectionsHandler.logoutAll
handlerLogoutAll(st) ==
  LET registered == {st.connections[i] : i \in DOMAIN st.connections} \ {0}
  IN IF registered = {}
     THEN [st EXCEPT !.result = "ok"]
     ELSE logoutEach([st EXCEPT !.admin.pending = Cardinality(registered),
                                !.admin.targets = registered,
                                !.admin.waiting = TRUE],
                     Ascending(registered))

\* BaileysConnectionsHandler.sendPresenceUpdate
handlerSendPresenceUpdate(st, i, type, me) ==
  IF getConnection(st, i) = 0
  THEN [st EXCEPT !.result = "NotConnectedError"]
  ELSE sendPresenceUpdate(st, getConnection(st, i), type, me, "caller")

\* BaileysConnection.readMessages, chatModify, fetchMessageHistory,
\* sendReceipts, profilePictureUrl, onWhatsApp: safeSocket, then the request
passThrough(st, s, op) ==
  IF st.sessions[s].socket = 0
  THEN [st EXCEPT !.result = "NotConnectedError"]
  ELSE [st EXCEPT !.calls = Append(@, op),
                  !.result = "transport"]

PassThroughOps ==
  {"readMessages", "chatModify", "fetchMessageHistory", "sendReceipts",
   "profilePictureUrl", "onWhatsApp"}

\* the six pass-through methods of BaileysConnectionsHandler
handlerPassThrough(st, i, op) ==
  IF getConnection(st, i) = 0
  THEN [st EXCEPT !.result = "NotConnectedError"]
  ELSE passThrough(st, getConnection(st, i), op)

\* A JID is written as the sequence of its parts: a local part "n" and the
\* server suffixes it carries.
GroupSuffix == "@g.us"
UserSuffix == "@s.whatsapp.net"

JidList ==
  <<<<"n", UserSuffix>>, <<"n", GroupSuffix, UserSuffix>>,
    <<"n", GroupSuffix>>, <<"n", UserSuffix, GroupSuffix>>,
    <<"n">>, <<"n", UserSuffix, "n", GroupSuffix>>>>

Jids == {JidList[k] : k \in 1..Len(JidList)}

\* the messages of sendMessage calls: a JID and whether the content carries
\* an audio buffer
MessageList ==
  [k \in 1..(2 * Len(JidList)) |->
     [jid |-> JidList[((k - 1) % Len(JidList)) + 1],
      audio |-> ((k % 2 = 0) # (k > Len(JidList)))]]

\* the messages a behaviour sends
Messages == {MessageList[k] : k \in {n \in 1..Len(MessageList) : n <= profile.messages}}

\* jid.includes("@g.us@s.whatsapp.net") || jid.includes("@s.whatsapp.net@g.us")
malformedJid(jid) ==
  \E k \in 1..(Len(jid) - 1) :
    \/ jid[k] = GroupSuffix /\ jid[k + 1] = UserSuffix
    \/ jid[k] = UserSuffix /\ jid[k + 1] = GroupSuffix

\* sendMessage without the check of the JID
sendMessage_NoJidCheck(st, s, jid, ready, audio) ==
  IF st.sessions[s].socket = 0
  THEN [st EXCEPT !.result = "NotConnectedError"]
  ELSE IF ~ready THEN [st EXCEPT !.result = "NotReady"]
  ELSE [st EXCEPT !.calls = (IF audio THEN <<"preprocessAudio">> ELSE <<>>)
                              \o <<"sendMessage">>,
                  !.result = "transport"]

\* BaileysConnection.sendMessage: ready is socket.user.id, audio says that
\* the content carries an audio buffer (preprocessed before the send)
sendMessage(st, s, jid, ready, audio) ==
  IF st.sessions[s].socket = 0
  THEN [st EXCEPT !.result = "NotConnectedError"]
  ELSE IF malformedJid(jid) THEN [st EXCEPT !.result = "InvalidJid"]
  ELSE IF ~ready THEN [st EXCEPT !.result = "NotReady"]
  ELSE [st EXCEPT !.calls = (IF audio THEN <<"preprocessAudio">> ELSE <<>>)
                              \o <<"sendMessage">>,
                  !.result = "transport"]

\* BaileysConnectionsHandler.sendMessage
handlerSendMessage(st, i, jid, ready, audio) ==
  IF getConnection(st, i) = 0
  THEN [st EXCEPT !.result = "NotConnectedError"]
  ELSE sendMessage(st, getConnection(st, i), jid, ready, audio)

(***************************************************************************)
(* Webhook delivery: config.webhook.retryPolicy and the loop of            *)
(* sendToWebhook.                                                          *)
(***************************************************************************)
RetryPolicies ==
  [maxRetries : 0..WhMaxRetries, retryInterval : {100, 250}, backoffFactor : {1, 2}]

DefaultPolicy == [maxRetries |-> 3, retryInterval |-> 100, backoffFactor |-> 2]

Jitters == {0, 500, JitterRange - 1}

IdleDelivery(policy, n) ==
  [pc |-> "idle", policy |-> policy, n |-> n, attempt |-> 0, delay |-> 0,
   sent |-> 0, failed |-> 0, slept |-> 0, result |-> "none"]

\* sendToWebhook, up to the first `await this.sendPayloadToWebhook`
startDelivery(d) ==
  [d EXCEPT !.pc = "fetch", !.n = @ + 1, !.attempt = 0,
            !.delay = d.policy.retryInterval,
            !.sent = 0, !.failed = 0, !.slept = 0, !.result = "none"]

\* afterAttempt without `delay *= backoffFactor`
afterAttempt_NoBackoff(d, outcome, jitter) ==
  LET d1 == [d EXCEPT !.sent = @ + 1]
      d2 == [d1 EXCEPT !.failed = @ + 1, !.attempt = @ + 1]
  IN IF outcome = "ok"
     THEN [d1 EXCEPT !.pc = "done", !.result = "response"]
     ELSE IF d2.attempt <= d.policy.maxRetries
     THEN [d2 EXCEPT !.pc = "sleep", !.slept = d.delay + jitter]
     ELSE [d2 EXCEPT !.pc = "done", !.result = "dropped"]

\* afterAttempt with `attempt < maxRetries` for the retry test
afterAttempt_OneFewer(d, outcome, jitter) ==
  LET d1 == [d EXCEPT !.sent = @ + 1]
      d2 == [d1 EXCEPT !.failed = @ + 1, !.attempt = @ + 1]
  IN IF outcome = "ok"
     THEN [d1 EXCEPT !.pc = "done", !.result = "response"]
     ELSE IF d2.attempt < d.policy.maxRetries
     THEN [d2 EXCEPT !.pc = "sleep", !.slept = d.delay + jitter,
                     !.delay = @ * d.policy.backoffFactor]
     ELSE [d2 EXCEPT !.pc = "done", !.result = "dropped"]

\* sendToWebhook, one turn of the loop after sendPayloadToWebhook returned
\* `outcome` ("ok": response.ok, "status": another response, "error": fetch
\* threw).  sent, failed and slept record the HTTP attempts made, those that
\* failed and the last sleep.
afterAttempt(d, outcome, jitter) ==
  LET d1 == [d EXCEPT !.sent = @ + 1]
      d2 == [d1 EXCEPT !.failed = @ + 1, !.attempt = @ + 1]
  IN IF outcome = "ok"
     THEN [d1 EXCEPT !.pc = "done", !.result = "response"]
     ELSE IF d2.attempt <= d.policy.maxRetries
     THEN [d2 EXCEPT !.pc = "sleep", !.slept = d.delay + jitter,
                     !.delay = @ * d.policy.backoffFactor]
     ELSE [d2 EXCEPT !.pc = "done", !.result = "dropped"]

\* the slice's dispatch, followed when no other delivery is being followed
followDelivery(st) ==
  IF /\ st.hooks # <<>>
     /\ delivery.pc \in {"idle", "done"}
     /\ delivery.n < profile.deliveries
  THEN startDelivery(delivery)
  ELSE delivery

(***************************************************************************)
(* Steps                                                                   *)
(***************************************************************************)
Step(st) ==
  /\ \/ BagCardinality(st.tasks) <= profile.tasks
     \/ BagCardinality(st.tasks) <= BagCardinality(tasks)
  /\ Len(st.sessions) <= profile.sessions
  /\ \A s \in 1..Len(st.sessions) : st.sessions[s].reconnectCount <= profile.rc
  /\ sessions' = st.sessions
  /\ sockets' = st.sockets
  /\ connections' = st.connections
  /\ creds' = st.creds
  /\ tasks' = st.tasks
  /\ admin' = st.admin
  /\ delivery' = followDelivery(st)
  /\ last' = [result |-> st.result, calls |-> st.calls, hooks |-> st.hooks]
  /\ UNCHANGED profile

\* the state with the suspended call `t` taken up again
Woken(t) == [Cur EXCEPT !.tasks = @ (-) SetToBag({t})]

\* POST /connections/:phoneNumber
Connect(i, o, me) == Step(handlerConnect(Cur, i, o, me))

\* useRedisAuthState returned: connect goes on to fetchBaileysClientVersion
ConnectAuthLoaded(t) ==
  /\ t.kind = "connect.auth"
  /\ Step(suspend([Woken(t) EXCEPT !.sessions[t.sess].clearAuthState = TRUE],
                  Task("connect.version", t.sess, t.cont, "-")))

\* fetchBaileysClientVersion returned: makeWASocket succeeds or throws
ConnectSocket(t, ok) ==
  /\ t.kind = "connect.version"
  /\ ok => Len(sockets) < profile.sockets
  /\ Step(afterConnect(makeWASocket(Woken(t), t.sess, ok), t.sess, t.cont))

\* the Transport emits connection.update on handle h
ConnectionUpdate(h, ev, user) ==
  /\ sockets[h].live /\ sockets[h].cuOn
  /\ user # "self" => ev = "open"
  /\ Step(handleConnectionUpdate(
            [Cur EXCEPT !.sockets[h].live = IF ev \in CloseUpdates THEN FALSE ELSE @],
            sockets[h].owner, ev, user))

\* the Transport emits creds.update on handle h: saveCreds
CredsUpdate(h) ==
  /\ sockets[h].live
  /\ Step(saveCreds(Cur, sessions[sockets[h].owner].phoneNumber))

\* clearAuthState returned
CloseResume(t) ==
  /\ t.kind = "close"
  /\ Step(closeEnd(Woken(t), t.sess, t.cont, t.arg))

\* socket.logout() settled, either way
LogoutResume(t, ok) ==
  /\ t.kind = "logout"
  /\ Step(close(Woken(t), t.sess, t.cont, "logout"))

\* toDataURL returned
QrResume(t) ==
  /\ t.kind = "qr"
  /\ Step(forwardUpdate(Woken(t), t.sess, "qr"))

\* who receives the rejection of a close() whose `await this.clearAuthState?.()`
\* rejected.  close() is awaited by handleConnectionUpdate on a terminal close
\* and, through `await this.handleReconnecting()`, on a recoverable close at
\* the ceiling: withErrorHandling catches it.  It is not awaited on a
\* reconnect signal (`this.handleReconnecting()`) nor in
\* handleWrongPhoneNumber (`this.logout()`): the rejection is handled by
\* nobody.  Registry.logout awaits it and rethrows to its caller.
closeRejected(st, cont) ==
  CASE cont \in {"forward", "reconnect"} -> [st EXCEPT !.result = "caught"]
    [] cont \in {"none", "logout.none"} -> [st EXCEPT !.result = "unhandled"]
    [] cont = "all" -> settleOne(st)
    [] OTHER -> [st EXCEPT !.result = "StoreError"]

\* the Transport emits connection.update {connection: "close"} without
\* lastDisconnect.error on handle h: `error.message` throws a TypeError
\* before anything is done, and withErrorHandling catches it
MalformedClose(h) ==
  /\ sockets[h].live /\ sockets[h].cuOn
  /\ Step([Cur EXCEPT !.sockets[h].live = FALSE, !.result = "caught"])

\* toDataURL rejected: the update with the QR code is not forwarded
QrFailed(t) ==
  /\ t.kind = "qr"
  /\ Step([Woken(t) EXCEPT !.result = "caught"])

\* clearAuthState rejected: close() stops at its first line
ClearFailed(t) ==
  /\ t.kind = "close"
  /\ Step(closeRejected(Woken(t), t.cont))

\* reconnectFromAuthStore, from the return of getRedisSavedAuthStateIds
ReconnectFromAuthStore ==
  /\ admin.restore = "listing"
  /\ Step(restoreNext([Cur EXCEPT !.admin.todo = getRedisSavedAuthStateIds(Cur)]))

\* shutdown: baileys.logoutAll()
LogoutAll ==
  /\ ~admin.waiting
  /\ Step(handlerLogoutAll(Cur))

\* DELETE /connections/:phoneNumber
Logout(i) == Step(handlerLogout(Cur, i))

\* PATCH /connections/:phoneNumber/presence
SendPresenceUpdate(i, type, me) == Step(handlerSendPresenceUpdate(Cur, i, type, me))

\* socket.sendPresenceUpdate settled
PresenceResume(t, ok) ==
  /\ t.kind = "presence"
  /\ Step(IF ok
          THEN [presenceThen(Woken(t), t.sess, t.arg) EXCEPT !.result = "ok"]
          ELSE [Woken(t) EXCEPT !.result = "TransportError"])

\* the 60 s timer set by sendPresenceUpdate fires
PresenceTimeout(s) ==
  /\ sessions[s].clearOnlinePresenceTimeout
  /\ Step([Cur EXCEPT !.sessions[s].clearOnlinePresenceTimeout = FALSE,
                      !.sessions[s].pendingTimers = @ - 1,
                      !.sessions[s].revertSuperseded = FALSE,
                      !.calls = IF sessions[s].socket # 0
                                THEN <<"unavailable">>
                                ELSE <<>>])

PassThrough(i, op) == Step(handlerPassThrough(Cur, i, op))

SendMessage(i, jid, ready, audio) ==
  Step(handlerSendMessage(Cur, i, jid, ready, audio))

\* the webhook endpoint answered (or fetch threw)
DeliveryResponse(outcome, jitter) ==
  /\ delivery.pc = "fetch"
  /\ delivery' = afterAttempt(delivery, outcome, jitter)
  /\ last' = [result |-> "-", calls |-> <<>>, hooks |-> <<>>]
  /\ UNCHANGED <<profile, connections, sessions, sockets, creds, tasks, admin>>

\* asyncSleep returned
DeliveryWake ==
  /\ delivery.pc = "sleep"
  /\ delivery' = [delivery EXCEPT !.pc = "fetch"]
  /\ last' = [result |-> "-", calls |-> <<>>, hooks |-> <<>>]
  /\ UNCHANGED <<profile, connections, sessions, sockets, creds, tasks, admin>>

\* a fresh process: no session, no entry, nothing in flight
InitProcess ==
  /\ connections = [i \in Ids |-> 0]
  /\ sessions = <<>>
  /\ sockets = <<>>
  /\ tasks = EmptyBag
  /\ admin = [restore |-> IF profile.startup THEN "listing" ELSE "off",
              todo |-> <<>>, made |-> {}, waiting |-> FALSE, targets |-> {},
              pending |-> 0]
  /\ last = [result |-> "-", calls |-> <<>>, hooks |-> <<>>]

\* the Credential Store may hold auth material of any identity
Init0 ==
  /\ InitProcess
  /\ creds \in [Ids -> BOOLEAN]

Init ==
  /\ profile = RegistryProfile
  /\ delivery = IdleDelivery(DefaultPolicy, 0)
  /\ Init0

InitSession ==
  /\ profile = SessionProfile
  /\ delivery = IdleDelivery(DefaultPolicy, 0)
  /\ Init0

InitRace ==
  /\ profile = RaceProfile
  /\ delivery = IdleDelivery(DefaultPolicy, 0)
  /\ Init0

InitRestore ==
  /\ profile = RestoreProfile
  /\ delivery = IdleDelivery(DefaultPolicy, 0)
  /\ Init0

\* the reconnect signals of one session, restored at startup or connected
InitSignal ==
  /\ profile = SignalProfile
  /\ delivery = IdleDelivery(DefaultPolicy, 0)
  /\ Init0

\* one session whose handlers meet failures
InitFault ==
  /\ profile = FaultProfile
  /\ delivery = IdleDelivery(DefaultPolicy, 0)
  /\ Init0

\* one session whose presence requests overlap
InitPresence ==
  /\ profile = PresenceProfile
  /\ delivery = IdleDelivery(DefaultPolicy, 0)
  /\ Init0

\* one session whose connection updates overlap the forced close
InitCeiling ==
  /\ profile = CeilingProfile
  /\ delivery = IdleDelivery(DefaultPolicy, 0)
  /\ Init0

\* shutdown is explored from an empty Credential Store
InitShutdown ==
  /\ profile = ShutdownProfile
  /\ delivery = IdleDelivery(DefaultPolicy, 0)
  /\ InitProcess
  /\ creds = [i \in Ids |-> FALSE]

InitWebhook ==
  /\ profile = WebhookProfile
  /\ \E p \in RetryPolicies : delivery = IdleDelivery(p, 0)
  /\ Init0

PresenceTypes == {"available", "unavailable", "composing"}

\* the connection lifecycle: connect, logout, connection updates and the
\* continuations of their awaits
NextLifecycle ==
  \/ \E i \in Ids, o \in Options, me \in BOOLEAN : Connect(i, o, me)
  \/ \E t \in TaskSet : ConnectAuthLoaded(t)
  \/ \E t \in TaskSet, ok \in BOOLEAN : ConnectSocket(t, ok)
  \/ \E h \in SocketSet, ev \in ConnectionUpdates, user \in {"self", "other", "none"} :
       ConnectionUpdate(h, ev, user)
  \/ \E t \in TaskSet : CloseResume(t)
  \/ \E t \in TaskSet, ok \in BOOLEAN : LogoutResume(t, ok)
  \/ \E t \in TaskSet : QrResume(t)
  \/ \E i \in Ids : Logout(i)

\* credential updates and the settling of presence requests and timers
NextAmbient ==
  \/ \E h \in SocketSet : CredsUpdate(h)
  \/ \E t \in TaskSet, ok \in BOOLEAN : PresenceResume(t, ok)
  \/ \E s \in SessionSet : PresenceTimeout(s)

NextCore == NextLifecycle \/ NextAmbient

\* the other per-identity operations of the registry
NextApi ==
  \/ \E i \in Ids, type \in PresenceTypes, me \in BOOLEAN : SendPresenceUpdate(i, type, me)
  \/ \E i \in Ids, op \in PassThroughOps : PassThrough(i, op)
  \/ \E i \in Ids, m \in Messages, ready \in BOOLEAN :
       SendMessage(i, m.jid, ready, m.audio)

NextDelivery ==
  \/ \E outcome \in {"ok", "status", "error"}, jitter \in Jitters : DeliveryResponse(outcome, jitter)
  \/ DeliveryWake

NextRestore == NextCore \/ ReconnectFromAuthStore

\* failures met while a connection update is handled
NextFault ==
  \/ \E h \in SocketSet : MalformedClose(h)
  \/ \E t \in TaskSet : QrFailed(t)
  \/ \E t \in TaskSet : ClearFailed(t)

\* shutdown is explored with the lifecycle alone: no credential update
\* arrives and no presence request settles while it is under way
NextShutdown == NextLifecycle \/ LogoutAll

Next == NextCore \/ NextApi
NextWebhook == NextCore \/ NextDelivery

Spec == Init /\ [][Next]_vars
SpecSession == InitSession /\ [][Next]_vars
SpecRace == InitRace /\ [][NextCore]_vars
SpecWebhook == InitWebhook /\ [][NextWebhook]_vars
SpecRestore == InitRestore /\ [][NextRestore]_vars
SpecShutdown == InitShutdown /\ [][NextShutdown]_vars
SpecSignal == InitSignal /\ [][NextRestore]_vars
SpecPresence == InitPresence /\ [][Next]_vars
SpecFault == InitFault /\ [][NextLifecycle \/ NextFault]_vars
SpecCeiling == InitCeiling /\ [][NextLifecycle]_vars

(***************************************************************************)
(* Claims                                                                  *)
(***************************************************************************)
SessionsOf(i) == {s \in SessionSet : sessions[s].phoneNumber = i}
HandlesOf(i) == {h \in SocketSet : sockets[h].owner \in SessionsOf(i)}
Conts(s, kind) == {t.cont : t \in {u \in TaskSet : u.sess = s /\ u.kind = kind}}

\* C1: for every identity at most one Session holds a Transport handle and
\* at most one handle of that identity is live, whatever the interleaving of
\* the Registry.connect calls for it.
C1_OneSessionPerIdentity ==
  \A i \in Ids :
    /\ Cardinality({s \in SessionsOf(i) : sessions[s].socket # 0}) <= 1
    /\ Cardinality({h \in HandlesOf(i) : sockets[h].live}) <= 1

\* what C2 says of the state in which the handling of a recoverable close
\* leaves session s: handle dropped and connect() re-entered, credentials,
\* on-close callback and registry untouched
RecoverableCloseKept(s) ==
  /\ sessions'[s].socket = 0
  /\ "connect.auth" \in {t.kind : t \in {u \in BagToSet(tasks') : u.sess = s /\ u.cont = "none"}}
  /\ creds' = creds
  /\ sessions'[s].closeCalls = sessions[s].closeCalls
  /\ connections' = connections

\* the re-entered connect() ends in a handle that did not exist before
ReconnectMakesNewHandle ==
  \A t \in TaskSet :
    ConnectSocket(t, TRUE) /\ t.cont = "none" =>
      /\ sessions'[t.sess].socket \notin SocketSet
      /\ sessions'[t.sess].socket \in 1..Len(sockets')
      /\ sockets'[sessions'[t.sess].socket].live

\* the handling of a recoverable "close" by session s comes to its end in
\* this step: at once, or when the close() it awaited returns
RecoverableCloseHandled(s) ==
  \/ \E h \in SocketSet :
       /\ sockets[h].owner = s
       /\ ConnectionUpdate(h, "closeRecoverable", "self")
       /\ CopiesIn(Task("close", s, "reconnect", "ceiling"), tasks')
            = CopiesIn(Task("close", s, "reconnect", "ceiling"), tasks)
  \/ \E t \in TaskSet : t.sess = s /\ t.cont = "reconnect" /\ CloseResume(t)

TerminalCloseHandled(s) ==
  \/ \E h \in SocketSet, ev \in {"closeLoggedOut", "closeQrEnded"} :
       /\ sockets[h].owner = s
       /\ ~sessions[s].clearAuthState
       /\ ConnectionUpdate(h, ev, "self")
  \/ \E t \in TaskSet : t.sess = s /\ t.cont = "forward" /\ CloseResume(t)

\* C3: after a terminal "close" is handled the Session is CLOSED: credentials
\* cleared, no handle, reconnectCount 0, on-close callback invoked, identity
\* not in the Registry.
C3_TerminalCloseClears ==
  [][\A s \in SessionSet :
       TerminalCloseHandled(s) =>
         /\ ~creds'[sessions[s].phoneNumber]
         /\ sessions'[s].socket = 0
         /\ sessions'[s].reconnectCount = 0
         /\ sessions'[s].closeCalls >= 1
         /\ connections'[sessions[s].phoneNumber] = 0]_vars

\* C4: a Session closed for passing the reconnect ceiling stays closed: it
\* is not registered, holds no Transport handle and creates no new one.
C4_CeilingStaysClosed ==
  \A s \in SessionSet :
    sessions[s].closedBy = "ceiling" =>
      /\ sessions[s].socket = 0
      /\ connections[sessions[s].phoneNumber] # s

\* session s handles, in this step, an update that the code treats as a
\* reconnect signal
ReconnectSignalHandled(s) ==
  \E h \in SocketSet, ev \in ConnectionUpdates :
    /\ sockets[h].owner = s
    /\ isReconnecting(Cur, s, ev)
    /\ ConnectionUpdate(h, ev, "self")

\* session s forwards, in this step, an update presented as "open"
OpenForwarded(s) ==
  \E h \in SocketSet, ev \in {"open", "online"}, user \in {"self", "none"} :
    /\ sockets[h].owner = s
    /\ ConnectionUpdate(h, ev, user)

\* close() of session s runs to its end in this step
CloseEnded(s) ==
  /\ sessions'[s].socket = 0
  /\ ~sessions'[s].clearAuthState
  /\ connections'[sessions[s].phoneNumber] # s
  /\ \/ \E t \in TaskSet : t.sess = s /\ CloseResume(t)
     \/ ~sessions[s].clearAuthState

\* C5 as stated: reconnectCount changes only by +1 on a reconnect signal
\* (new-login or qualifying "connecting" update) and to 0 on entering OPEN or
\* CLOSED.
C5_OnlySignals ==
  [][\A s \in SessionSet :
       sessions'[s].reconnectCount # sessions[s].reconnectCount =>
         \/ /\ sessions'[s].reconnectCount = sessions[s].reconnectCount + 1
            /\ ReconnectSignalHandled(s)
         \/ /\ sessions'[s].reconnectCount = 0
            /\ OpenForwarded(s) \/ CloseEnded(s)]_vars

\* C5 amended: reconnectCount goes up by exactly one on each reconnect signal
\* and on each recoverable "close" (unless that passes the ceiling with
\* nothing to await, where close() leaves it at 0); it is set to 0 by every
\* update forwarded as "open" and by every close() that ends; nothing else
\* changes it.
C5_ReconnectCount ==
  [][\A s \in SessionSet :
       /\ sessions'[s].reconnectCount # sessions[s].reconnectCount =>
            \/ /\ sessions'[s].reconnectCount = sessions[s].reconnectCount + 1
               /\ ReconnectSignalHandled(s) \/ RecoverableCloseHandled(s)
                    \/ \E h \in SocketSet : sockets[h].owner = s
                          /\ ConnectionUpdate(h, "closeRecoverable", "self")
            \/ /\ sessions'[s].reconnectCount = 0
               /\ OpenForwarded(s) \/ CloseEnded(s)
       /\ ReconnectSignalHandled(s)
            \/ (\E h \in SocketSet : sockets[h].owner = s
                  /\ ConnectionUpdate(h, "closeRecoverable", "self")) =>
            \/ sessions'[s].reconnectCount = sessions[s].reconnectCount + 1
            \/ /\ sessions[s].reconnectCount = ReconnectCeiling
               /\ sessions'[s].reconnectCount = 0 /\ CloseEnded(s)
       /\ OpenForwarded(s) \/ (\E t \in TaskSet : t.sess = s /\ CloseResume(t)) =>
            sessions'[s].reconnectCount = 0]_vars

\* a recoverable close has just taken reconnectCount from 1 to 2
C5_Witness ==
  \E s \in SessionSet :
    /\ sessions[s].reconnectCount = 2
    /\ sessions[s].socket = 0
    /\ "none" \in Conts(s, "connect.auth")
    /\ last.hooks = <<"reconnecting">>

RECURSIVE Pow(_, _)
Pow(b, e) == IF e = 0 THEN 1 ELSE b * Pow(b, e - 1)

\* initialIntervalMs * backoffFactor^i
BaseDelay(policy, i) == policy.retryInterval * Pow(policy.backoffFactor, i)

Failures == {"status", "error"}

\* C6: a delivery whose endpoint fails k <= maxRetries times and then answers
\* 2xx ends at that answer with exactly k + 1 HTTP attempts made and none
\* after it; the sleep that follows failed attempt i (from 0) is at least
\* retryInterval * backoffFactor^i and less than that plus 1000 ms.
C6_RetryThenSuccess ==
  [][\A outcome \in {"ok"} \cup Failures, jitter \in Jitters :
       DeliveryResponse(outcome, jitter) =>
         /\ delivery.result = "none"
         /\ delivery.sent = delivery.failed
         /\ delivery.failed <= delivery.policy.maxRetries
         /\ outcome = "ok" =>
              /\ delivery'.pc = "done"
              /\ delivery'.result = "response"
              /\ delivery'.failed = delivery.failed
              /\ delivery'.sent = delivery.failed + 1
         /\ outcome \in Failures /\ delivery.failed < delivery.policy.maxRetries =>
              /\ delivery'.pc = "sleep"
              /\ delivery'.sent = delivery.sent + 1
              /\ delivery'.failed = delivery.failed + 1
              /\ delivery'.slept >= BaseDelay(delivery.policy, delivery.failed)
              /\ delivery'.slept < BaseDelay(delivery.policy, delivery.failed) + 1000]_vars

\* maxRetries = 3, initial = 100, factor = 2, two failures then 2xx: three
\* attempts, the second sleep at least 200 ms
C6_Witness ==
  /\ delivery.policy = [maxRetries |-> 3, retryInterval |-> 100, backoffFactor |-> 2]
  /\ delivery.result = "response"
  /\ delivery.failed = 2
  /\ delivery.sent = 3
  /\ delivery.slept >= 200

\* C7: a delivery whose endpoint fails on every attempt makes exactly
\* maxRetries + 1 HTTP attempts and then drops the payload; no step of the
\* delivery returns an error to the Session or changes its handle, its
\* reconnectCount or the registry.
C7_DropAfterAllAttempts ==
  [][/\ \A outcome \in Failures, jitter \in Jitters :
          DeliveryResponse(outcome, jitter) =>
            /\ delivery.sent = delivery.failed
            /\ delivery'.result = "dropped" <=> delivery.failed = delivery.policy.maxRetries
            /\ delivery'.result = "dropped" =>
                 /\ delivery'.pc = "done"
                 /\ delivery'.sent = delivery.policy.maxRetries + 1
                 /\ delivery'.failed = delivery'.sent
     /\ NextDelivery =>
          /\ UNCHANGED <<sessions, sockets, connections, creds, tasks>>
          /\ last'.result = "-"]_vars

\* a registered Session with a live handle whose delivery was dropped after
\* four attempts (maxRetries = 3)
C7_Witness ==
  /\ delivery.result = "dropped"
  /\ delivery.policy.maxRetries = 3
  /\ delivery.sent = 4
  /\ delivery.failed = 4
  /\ \E s \in SessionSet :
       /\ connections[sessions[s].phoneNumber] = s
       /\ sessions[s].socket # 0
       /\ sockets[sessions[s].socket].live

\* identity i has a registered Session that holds a Transport handle
LiveEntry(i) == connections[i] # 0 /\ sessions[connections[i]].socket # 0

\* identity i has a registered Session that holds no Transport handle
StaleEntry(i) == connections[i] # 0 /\ sessions[connections[i]].socket = 0

\* what a Registry.connect on a live entry leaves alone: no Session and no
\* handle created, same registered instance; only its options are replaced
OnlyOptionsUpdated(i, o) ==
  /\ sessions' = [sessions EXCEPT ![connections[i]].options = o]
  /\ sockets' = sockets
  /\ connections' = connections
  /\ creds' = creds

\* C8 as stated: a connect call on a live entry updates the options, sends
\* one "available" presence update and creates nothing.
C8_AlwaysOnePresence ==
  [][\A i \in Ids, o \in Options, me \in BOOLEAN :
       LiveEntry(i) /\ Connect(i, o, me) =>
         /\ OnlyOptionsUpdated(i, o)
         /\ last'.calls = <<"available">>]_vars

\* C8 amended: a connect call on a live entry updates the options and creates
\* nothing; it sends one "available" presence update when the Transport has
\* an established identity and none otherwise, and neither outcome of the
\* probe's request creates a Session or a handle or changes the entry.
C8_ConnectLiveIdempotent ==
  [][/\ \A i \in Ids, o \in Options, me \in BOOLEAN :
          LiveEntry(i) /\ Connect(i, o, me) =>
            /\ OnlyOptionsUpdated(i, o)
            /\ last'.calls = IF me THEN <<"available">> ELSE <<>>
            /\ ~me => tasks' = tasks /\ last'.result = "ok"
            /\ me => tasks' = tasks (+) SetToBag({Task("presence", connections[i], "registry", "available")})
     /\ \A t \in TaskSet :
          t.cont = "registry" /\ PresenceResume(t, TRUE) =>
            /\ Len(sessions') = Len(sessions)
            /\ sockets' = sockets
            /\ connections' = connections
            /\ last'.calls = <<>>
            /\ last'.result = "ok"]_vars

\* a second connect call with other options has just probed the live entry
C8_Witness ==
  \E i \in Ids :
    /\ LiveEntry(i)
    /\ Len(sessions) = 1
    /\ sessions[connections[i]].options = 2
    /\ Task("presence", connections[i], "registry", "available") \in TaskSet
    /\ last.calls = <<"available">>

\* C9: a connect call that finds a stale entry (NotConnectedError from the
\* probe) discards it and creates a fresh Session, which is registered when
\* its connect() has run and then holds a new handle; a probe that fails with
\* another error hands that error to the caller, creates no Session and
\* leaves the entry in place.
C9_StaleEntryReplaced ==
  [][/\ \A i \in Ids, o \in Options, me \in BOOLEAN :
          StaleEntry(i) /\ Connect(i, o, me) =>
            /\ connections' = [connections EXCEPT ![i] = 0]
            /\ sessions' = Append([sessions EXCEPT ![connections[i]].options = o],
                                  BaileysConnection(i, o, FALSE))
            /\ tasks' = tasks (+) SetToBag({Task("connect.auth", Len(sessions) + 1, "registry", "-")})
            /\ last'.calls = <<>>
     /\ \A t \in TaskSet :
          t.cont = "registry" /\ ConnectSocket(t, TRUE) =>
            /\ connections'[sessions[t.sess].phoneNumber] = t.sess
            /\ sessions'[t.sess].socket \notin SocketSet
            /\ sessions'[t.sess].socket \in 1..Len(sockets')
            /\ last'.result = "ok"
     /\ \A t \in TaskSet :
          t.cont = "registry" /\ PresenceResume(t, FALSE) =>
            /\ last'.result = "TransportError"
            /\ sessions' = sessions
            /\ sockets' = sockets
            /\ connections' = connections]_vars

\* the entry left by a first Session without a handle has been replaced by a
\* second Session of the same identity, now registered with a handle
C9_Witness ==
  \E i \in Ids :
    /\ Len(sessions) = 2
    /\ sessions[1].phoneNumber = i /\ sessions[2].phoneNumber = i
    /\ sessions[1].socket = 0
    /\ connections[i] = 2
    /\ sessions[2].socket # 0
    /\ last.result = "ok"

\* C10: every per-identity registry operation on an identity without an
\* entry fails with NotConnectedError, asks nothing of the Transport and
\* leaves the Registry (and every Session) unchanged.
C10_AbsentIdentityFails ==
  [][\A i \in Ids :
       connections[i] = 0 /\
         \/ Logout(i)
         \/ \E type \in PresenceTypes, me \in BOOLEAN : SendPresenceUpdate(i, type, me)
         \/ \E op \in PassThroughOps : PassThrough(i, op)
         \/ \E m \in Messages, ready \in BOOLEAN :
              SendMessage(i, m.jid, ready, m.audio)
       => /\ last'.result = "NotConnectedError"
          /\ last'.calls = <<>>
          /\ UNCHANGED <<connections, sessions, sockets, creds, tasks>>]_vars

\* an operation has just failed with NotConnectedError while one identity is
\* absent and another is registered with a handle
C10_Witness ==
  /\ last.result = "NotConnectedError"
  /\ last.calls = <<>>
  /\ \E i \in Ids : connections[i] = 0
  /\ \E j \in Ids : LiveEntry(j)

\* the Registry.logout call for identity i, made on registered session s,
\* resolves in this step: at once when nothing is awaited, else when the
\* Transport logout or the credential clearing it awaited returns
RegistryLogoutResolved(i, s) ==
  /\ s \in SessionSet
  /\ sessions[s].phoneNumber = i
  /\ last'.result = "ok"
  /\ \/ connections[i] = s /\ Logout(i)
     \/ \E t \in TaskSet :
          /\ t.sess = s /\ t.cont = "logout.registry"
          /\ CloseResume(t) \/ LogoutResume(t, TRUE) \/ LogoutResume(t, FALSE)

\* C11: Registry.logout for a registered identity never fails, and when it
\* resolves the identity is out of the Registry, its credentials are cleared
\* and the Session holds no handle, whether the Transport logout succeeded,
\* failed or could not be attempted for want of a handle.
C11_LogoutClears ==
  [][/\ \A i \in Ids :
          connections[i] # 0 /\ Logout(i) => last'.result \in {"-", "ok"}
     /\ \A t \in TaskSet :
          t.cont = "logout.registry" /\ (CloseResume(t) \/ LogoutResume(t, FALSE)) =>
            last'.result \in {"-", "ok"}
     /\ \A i \in Ids, s \in SessionSet :
          RegistryLogoutResolved(i, s) =>
            /\ connections'[i] = 0
            /\ sessions'[s].socket = 0
            /\ ~creds'[i]]_vars

\* the sessions the Registry holds
Registered == {connections[i] : i \in Ids} \ {0}

\* the number of "logout" requests among the Transport calls of the last step
LogoutCalls(calls) == Cardinality({k \in 1..Len(calls) : calls[k] = "logout"})

\* C12: logoutAll invokes logout on every registered Session (a Transport
\* logout for each one that holds a handle, the close path at once for the
\* others), resolves, successfully, only when all of them have settled,
\* whatever the outcome of each Transport logout, and leaves the Registry
\* empty.
C12_LogoutAllEmpties ==
  [][/\ LogoutAll =>
          /\ LogoutCalls(last'.calls) =
               Cardinality({s \in Registered : sessions[s].socket # 0})
          /\ \A s \in Registered :
               IF sessions[s].socket # 0
               THEN CopiesIn(Task("logout", s, "all", "-"), tasks')
                      = CopiesIn(Task("logout", s, "all", "-"), tasks) + 1
               ELSE \/ Task("close", s, "all", "logout") \in BagToSet(tasks')
                    \/ sessions'[s].closedBy # "none"
          /\ Registered = {} => last'.result = "ok" /\ connections' = connections
          /\ Registered # {} => admin'.targets = Registered
     /\ \A t \in TaskSet :
          t.cont = "all" /\ (CloseResume(t) \/ LogoutResume(t, FALSE)) =>
            last'.result \in {"-", "ok"}
     /\ admin'.waiting => admin'.pending > 0
     /\ admin.waiting /\ ~admin'.waiting =>
          /\ last'.result = "ok"
          /\ connections' = [i \in Ids |-> 0]
          /\ \A s \in admin.targets : sessions'[s].closedBy # "none"
          /\ \A t \in BagToSet(tasks') : t.cont # "all"]_vars

\* logoutAll has just resolved after logging out two Sessions with handles
C12_Witness ==
  /\ Len(sessions) = 2
  /\ ~admin.waiting
  /\ last.result = "ok"
  /\ \A i \in Ids : connections[i] = 0
  /\ \A s \in SessionSet :
       sessions[s].closedBy = "logout" /\ sessions[s].socket = 0 /\ sessions[s].closeCalls = 1
  /\ Len(sockets) = 2
  /\ tasks = EmptyBag

\* a presence update of type "available" on session s has just succeeded
AvailableSucceeded(s) ==
  \E t \in TaskSet :
    t.kind = "presence" /\ t.sess = s /\ t.arg = "available" /\ PresenceResume(t, TRUE)

\* what the firing of the presence-reset timer of session s leaves alone
TimerFiredOnly(s) ==
  /\ sessions' = [sessions EXCEPT ![s].clearOnlinePresenceTimeout = FALSE,
                                  ![s].pendingTimers = @ - 1,
                                  ![s].revertSuperseded = FALSE]
  /\ UNCHANGED <<connections, sockets, creds, tasks>>

\* C13 as stated: the timer set by a successful "available" update sends,
\* when it fires, exactly one "unavailable" presence update to the Transport.
C13_RevertAlwaysSent ==
  [][/\ \A s \in SessionSet :
          AvailableSucceeded(s) => sessions'[s].clearOnlinePresenceTimeout
     /\ \A s \in SessionSet :
          PresenceTimeout(s) => TimerFiredOnly(s) /\ last'.calls = <<"unavailable">>]_vars

\* C13 amended: the timer set by a successful "available" update sends, when
\* it fires, exactly one "unavailable" presence update if the Session holds a
\* Transport handle at that moment and nothing if it holds none; it fires at
\* most once, and a timer is pending only after such a success.
C13_RevertSentOnHandle ==
  [][/\ \A s \in SessionSet :
          AvailableSucceeded(s) => sessions'[s].clearOnlinePresenceTimeout
     /\ \A s \in SessionSet :
          sessions'[s].clearOnlinePresenceTimeout /\ ~sessions[s].clearOnlinePresenceTimeout
            => AvailableSucceeded(s)
     /\ \A s \in SessionSet :
          PresenceTimeout(s) =>
            /\ sessions[s].clearOnlinePresenceTimeout
            /\ TimerFiredOnly(s)
            /\ last'.calls = IF sessions[s].socket # 0 THEN <<"unavailable">> ELSE <<>>]_vars

\* the timer of a Session with a handle has just fired: one "unavailable"
\* sent, no request of a caller involved
C13_Witness ==
  \E s \in SessionSet :
    /\ sessions[s].socket # 0
    /\ ~sessions[s].clearOnlinePresenceTimeout
    /\ last = [result |-> "-", calls |-> <<"unavailable">>, hooks |-> <<>>]
    /\ tasks = EmptyBag

\* C14: once an "unavailable" presence update has been sent for while a
\* presence-reset timer was pending, that timer never fires, whenever and
\* however the Transport send settles.
C14_SupersededNeverFires ==
  [][\A s \in SessionSet : PresenceTimeout(s) => ~sessions[s].revertSuperseded]_vars

\* C15: sendMessage to a JID that carries a group suffix and an
\* individual-chat suffix one after the other fails, whatever the state of
\* the Session, with nothing asked of the Transport and no audio
\* preprocessing started: with the invalid-JID error when the Session holds a
\* handle, with NotConnectedError when it holds none.
C15_MalformedJidRejected ==
  [][\A i \in Ids, m \in Messages, ready \in BOOLEAN :
       malformedJid(m.jid) /\ SendMessage(i, m.jid, ready, m.audio) =>
         /\ last'.result = IF LiveEntry(i) THEN "InvalidJid" ELSE "NotConnectedError"
         /\ last'.calls = <<>>
         /\ UNCHANGED <<connections, sessions, sockets, creds, tasks>>]_vars

\* a send to a malformed JID has just been refused by a Session with a handle
C15_Witness ==
  /\ last.result = "InvalidJid"
  /\ last.calls = <<>>
  /\ \E i \in Ids : LiveEntry(i)

\* the Transport handles of Session s that have not emitted their close
LiveHandles(s) == {h \in SocketSet : sockets[h].owner = s /\ sockets[h].live}

\* C16: a Session never holds more than one live Transport handle, and a
\* handle it created but no longer stores has been discarded: a
\* connection.update of such a handle changes nothing in the Session, starts
\* no call of it and reaches neither the Registry, the Credential Store nor
\* the webhook, whatever the interleaving of Transport events and connect
\* calls.
C16_DroppedHandlesInert ==
  [][/\ \A s \in SessionSet : Cardinality(LiveHandles(s)) <= 1
     /\ \A h \in SocketSet, ev \in ConnectionUpdates, user \in {"self", "other", "none"} :
          sessions[sockets[h].owner].socket # h /\ ConnectionUpdate(h, ev, user) =>
            /\ UNCHANGED <<connections, sessions, creds, tasks>>
            /\ Len(sockets') = Len(sockets)
            /\ last'.hooks = <<>>]_vars

\* C17: CLOSED is terminal for a Session instance: once its close path has
\* run to the on-close callback the instance holds no Transport handle and
\* gets none again, and a later connection.update of a handle it created
\* changes nothing in it and forwards nothing to the webhook.
C17_ClosedIsTerminal ==
  [][\A s \in SessionSet :
       sessions[s].closeCalls >= 1 =>
         /\ sessions'[s].socket = 0
         /\ \A h \in SocketSet, ev \in ConnectionUpdates, user \in {"self", "other", "none"} :
              sockets[h].owner = s /\ ConnectionUpdate(h, ev, user) =>
                /\ sessions'[s] = sessions[s]
                /\ last'.hooks = <<>>]_vars

\* C18: when makeWASocket throws in the connect() of a Session started by
\* Registry.connect or by the startup restore, the on-close callback is
\* invoked, the Session gets no handle (none is created, so no listener is
\* attached) and, the starting call having gone on, the identity's entry is
\* not this Session.
C18_CreateFailureNotRegistered ==
  [][\A t \in TaskSet :
       t.cont \in {"registry", "restore"} /\ ConnectSocket(t, FALSE) =>
         /\ \/ sessions'[t.sess].closeCalls = sessions[t.sess].closeCalls + 1
            \/ sessions[t.sess].closeCalls = MaxCloseCalls
         /\ sessions'[t.sess].socket = 0
         /\ Len(sockets') = Len(sockets)
         /\ connections'[sessions[t.sess].phoneNumber] # t.sess]_vars

\* handle h reports "open" under another identity than that of its Session,
\* which holds a handle
WrongNumberOpen(h) ==
  /\ sessions[sockets[h].owner].socket # 0
  /\ ConnectionUpdate(h, "open", "other")

\* the logout() started by handleWrongPhoneNumber runs to its end in this
\* step: close() returns, at once when it has nothing to await
WrongNumberClosed(t) ==
  /\ t.cont = "logout.none"
  /\ \/ CloseResume(t)
     \/ /\ ~sessions[t.sess].clearAuthState
        /\ LogoutResume(t, TRUE) \/ LogoutResume(t, FALSE)

\* C19: an "open" reported under another identity than the Session's is not
\* forwarded: only wrong_phone_number reaches the webhook, a Transport logout
\* is attempted and nothing is raised; when the close path it started has
\* run, the identity's credentials are cleared, the Session holds no handle
\* and is not registered.
C19_WrongNumberForcesLogout ==
  [][/\ \A h \in SocketSet :
          WrongNumberOpen(h) =>
            /\ last'.hooks = <<"wrong_phone_number">>
            /\ last'.calls = <<"logout">>
            /\ last'.result = "-"
     /\ \A t \in TaskSet :
          WrongNumberClosed(t) =>
            /\ ~creds'[sessions[t.sess].phoneNumber]
            /\ sessions'[t.sess].socket = 0
            /\ connections'[sessions[t.sess].phoneNumber] # t.sess
            /\ last'.hooks = <<>>
            /\ last'.result = "-"]_vars

\* Session s, holding handle h, enters CLOSED in this step: a terminal close
\* reason, a reconnect signal at the ceiling, an identity mismatch, or the
\* Registry.logout of its identity
EntersClosed(s, h) ==
  /\ sessions[s].socket = h
  /\ sockets[h].owner = s
  /\ \/ ConnectionUpdate(h, "closeLoggedOut", "self")
     \/ ConnectionUpdate(h, "closeQrEnded", "self")
     \/ /\ sessions[s].reconnectCount >= ReconnectCeiling
        /\ ConnectionUpdate(h, "newLogin", "self")
     \/ WrongNumberOpen(h)
     \/ connections[sessions[s].phoneNumber] = s /\ Logout(sessions[s].phoneNumber)

\* C20: every entry into CLOSED of a Session that holds a handle begins with
\* a Transport logout request, before anything is cleared or discarded; and
\* when its close() returns the credentials are cleared, the handle is
\* discarded, reconnectCount is 0 and the on-close callback has run.
C20_ClosedEntrySequence ==
  [][/\ \A s \in SessionSet, h \in SocketSet :
          EntersClosed(s, h) =>
            /\ last'.calls = <<"logout">>
            /\ creds' = creds
            /\ sessions'[s].socket = h
     /\ \A t \in TaskSet :
          t.kind = "close" /\ CloseResume(t) =>
            /\ ~creds'[sessions[t.sess].phoneNumber]
            /\ sessions'[t.sess].socket = 0
            /\ sessions'[t.sess].reconnectCount = 0
            /\ \/ sessions'[t.sess].closeCalls = sessions[t.sess].closeCalls + 1
               \/ sessions[t.sess].closeCalls = MaxCloseCalls]_vars

\* the handling of an earlier connection.update of Session s is suspended at
\* an await: the rendering of the QR image, the clearing of the credentials
\* or the Transport logout of the identity mismatch
HandlerSuspended(s) ==
  \E t \in TaskSet :
    /\ t.sess = s
    /\ \/ t.kind = "qr"
       \/ t.kind = "close" /\ t.cont \in {"forward", "reconnect", "none", "logout.none"}
       \/ t.kind = "logout" /\ t.cont = "logout.none"

\* C21: the connection updates of one Session are handled one at a time in
\* arrival order: while the handling of an earlier update is suspended, a
\* later update of the Session changes nothing in it and dispatches nothing
\* to the webhook.
C21_UpdatesHandledInOrder ==
  [][\A h \in SocketSet, ev \in ConnectionUpdates, user \in {"self", "other", "none"} :
       HandlerSuspended(sockets[h].owner) /\ ConnectionUpdate(h, ev, user) =>
         /\ sessions'[sockets[h].owner] = sessions[sockets[h].owner]
         /\ last'.hooks = <<>>]_vars

\* C22: a reconnect signal (new login, "connecting" with an empty QR field,
\* or "connecting" on a Session whose isReconnect flag is set) clears the
\* flag and is not forwarded; when the incremented reconnectCount is at most
\* 10 exactly one "reconnecting" update goes to the webhook and nothing else
\* changes; when it exceeds 10 the Session is force-closed (close() runs, to
\* its end or to the await of the credential clearing) and nothing goes to
\* the webhook.
C22_ReconnectSignal ==
  [][\A h \in SocketSet, ev \in ConnectionUpdates :
       LET s == sockets[h].owner
           n == sessions[s].reconnectCount + 1
       IN isReconnecting(Cur, s, ev) /\ ConnectionUpdate(h, ev, "self") =>
            /\ ~sessions'[s].isReconnect
            /\ n <= ReconnectCeiling =>
                 /\ last'.hooks = <<"reconnecting">>
                 /\ sessions'[s] = [sessions[s] EXCEPT !.reconnectCount = n,
                                                       !.isReconnect = FALSE]
                 /\ UNCHANGED <<connections, creds, tasks>>
            /\ n > ReconnectCeiling =>
                 /\ last'.hooks = <<>>
                 /\ IF sessions[s].clearAuthState
                    THEN /\ tasks' = tasks (+) SetToBag({Task("close", s, "none", "ceiling")})
                         /\ ~creds'[sessions[s].phoneNumber]
                         /\ sessions'[s].reconnectCount = n
                    ELSE /\ sessions'[s].socket = 0
                         /\ sessions'[s].reconnectCount = 0
                         /\ sessions'[s].closeCalls > sessions[s].closeCalls
                              \/ sessions[s].closeCalls = MaxCloseCalls
                         /\ connections'[sessions[s].phoneNumber] = 0]_vars

\* the eleventh reconnect signal in a row has just started the forced close
\* of a Session, which is clearing its credentials; nothing went to the
\* webhook
C22_Witness ==
  \E t \in TaskSet :
    /\ t.kind = "close" /\ t.cont = "none" /\ t.arg = "ceiling"
    /\ sessions[t.sess].reconnectCount = ReconnectCeiling + 1
    /\ ~sessions[t.sess].isReconnect
    /\ last.hooks = <<>>
    /\ last.calls = <<>>

\* the handling of a connection update of Session s fails in this step: a
\* malformed close, a QR image that cannot be rendered, or a credential
\* clearing that rejects inside the close() the update started
HandlerFails(s) ==
  \/ \E h \in SocketSet : sockets[h].owner = s /\ MalformedClose(h)
  \/ \E t \in TaskSet : t.sess = s /\ QrFailed(t)
  \/ \E t \in TaskSet :
       /\ t.sess = s
       /\ t.cont \in {"forward", "reconnect", "none", "logout.none"}
       /\ ClearFailed(t)

\* C23: an exception thrown while a connection update of a Session is
\* handled is caught by withErrorHandling: the Session is not closed, its
\* handle, its reconnectCount and its registration are unchanged, and its
\* handles keep their listeners.
C23_HandlerFailureContained ==
  [][\A s \in SessionSet :
       HandlerFails(s) =>
         /\ last'.result = "caught"
         /\ sessions'[s] = sessions[s]
         /\ connections' = connections
         /\ \A h \in SocketSet : sockets'[h].cuOn = sockets[h].cuOn]_vars

\* C24: every Session has at most one pending presence-reset timer in
\* every reachable state, however the Transport sends of its
\* sendPresenceUpdate calls overlap.
C24_AtMostOneTimer ==
  \A s \in SessionSet : sessions[s].pendingTimers <= 1

\* a reset timer is pending while two presence requests of the Session, one
\* of them "available", are in flight together
C24_Witness ==
  \E s \in SessionSet :
    /\ sessions[s].pendingTimers = 1
    /\ CopiesIn(Task("presence", s, "caller", "available"), tasks) >= 1
    /\ BagCardinality(tasks) = 2
    /\ \A t \in TaskSet : t.kind = "presence" /\ t.sess = s

\* reconnectFromAuthStore returns in this step
RestoreCompletes == admin.restore # "done" /\ admin'.restore = "done"

RestoreConnectReturns(t) ==
  /\ t.cont = "restore"
  /\ ConnectSocket(t, TRUE) \/ ConnectSocket(t, FALSE)

\* a turn of reconnectFromAuthStore has begun for identity i: a new Session,
\* created with isReconnect set, is registered for it
TurnBegins(i) ==
  LET s == Len(sessions')
  IN /\ Len(sessions') = Len(sessions) + 1
     /\ sessions'[s] = BaileysConnection(i, 1, TRUE)
     /\ connections'[i] = s
     /\ admin'.made = admin.made \cup {s}

Replaced(s) == connections[sessions[s].phoneNumber] > s

\* the close() of Session s begins to clear the credentials in this step
ClearingStarts(s) ==
  \E t \in BagToSet(tasks') :
    t.kind = "close" /\ t.sess = s /\ CopiesIn(t, tasks') > CopiesIn(t, tasks)

\* the on-close callback of Session s runs in this step
CallbackRuns(s) == sessions'[s].closeCalls > sessions[s].closeCalls

\* C26: the closure of a Session that has been replaced in the Registry by
\* a newer Session of its identity leaves the newer Session registered and
\* the identity's credentials uncleared.
C26_CloseSparesSuccessor ==
  [][\A s \in SessionSet :
       Replaced(s) =>
         /\ CallbackRuns(s) =>
              connections'[sessions[s].phoneNumber] = connections[sessions[s].phoneNumber]
         /\ ClearingStarts(s) =>
              creds'[sessions[s].phoneNumber] = creds[sessions[s].phoneNumber]]_vars

\* C27: the on-close callback of a Session instance is invoked at most once
\* over the life of the instance.
C27_CallbackAtMostOnce ==
  \A s \in SessionSet : sessions[s].closeCalls <= 1


\* C28: in every reachable state the reconnectCount of every Session lies
\* between 0 and the ceiling plus one.
C28_ReconnectCountBounded ==
  \A s \in SessionSet :
    /\ sessions[s].reconnectCount >= 0
    /\ sessions[s].reconnectCount <= ReconnectCeiling + 1


\* the Sessions that the resolving of logoutAll removes from the Registry
DroppedByShutdown == {connections[i] : i \in Ids} \ {0}

\* C29: every Session that logoutAll removes from the Registry when it
\* resolves has had logout invoked on it by that logoutAll, and none of them
\* still holds a live Transport handle.
C29_ShutdownLogsOutAllDropped ==
  [][admin.waiting /\ ~admin'.waiting =>
       \A s \in DroppedByShutdown :
         /\ s \in admin.targets
         /\ ~(sessions'[s].socket # 0 /\ sockets'[sessions'[s].socket].live)]_vars

====
